---- MODULE Spec2Model ----
(***************************************************************************)
(* Configuration resolution of the Sabnzbd exporter:                        *)
(*   LoadSabnzbdConfig (internal/sabnzbd/config/config.go), the INI parser  *)
(*   and its merge function (INI.Unmarshal, INI.Merge, getStringFromMap),   *)
(*   and SabnzbdConfig.Validate.                                            *)
(* Strings are TLA+ strings, handled character by character with SubSeq,    *)
(* so that parsing and formatting are computed, not assumed.                *)
(***************************************************************************)
EXTENDS Integers, Sequences, FiniteSets, TLC

VARIABLES conf, environ, flags, pc, k, src, out, err, valid

vars == <<conf, environ, flags, pc, k, src, out, err, valid>>

(***************************************************************************)
(* String helpers (Go's strings package, as the source calls it)            *)
(***************************************************************************)
Char(s, i) == SubSeq(s, i, i)

Lower == "abcdefghijklmnopqrstuvwxyz"
Upper == "ABCDEFGHIJKLMNOPQRSTUVWXYZ"
Digits == "0123456789"

\* strings.Contains for a single character c
InChars(c, set) == \E i \in 1..Len(set) : Char(set, i) = c

IsLetter(c) == InChars(c, Lower) \/ InChars(c, Upper)
IsDigit(c) == InChars(c, Digits)
IsAlnum(c) == IsLetter(c) \/ IsDigit(c)

HasPrefix(s, p) == Len(s) >= Len(p) /\ SubSeq(s, 1, Len(p)) = p
HasSuffix(s, p) == Len(s) >= Len(p) /\ SubSeq(s, Len(s) - Len(p) + 1, Len(s)) = p

MatchAt(s, sub, i) == i >= 1 /\ i + Len(sub) - 1 <= Len(s) /\ SubSeq(s, i, i + Len(sub) - 1) = sub

\* strings.Index, 1-based; 0 when sub does not occur
Index(s, sub) ==
  IF \E i \in 1..Len(s) : MatchAt(s, sub, i)
  THEN CHOOSE i \in 1..Len(s) : MatchAt(s, sub, i) /\ \A j \in 1..(i - 1) : ~MatchAt(s, sub, j)
  ELSE 0

\* strings.LastIndex, 1-based; 0 when sub does not occur
LastIndex(s, sub) ==
  IF \E i \in 1..Len(s) : MatchAt(s, sub, i)
  THEN CHOOSE i \in 1..Len(s) : MatchAt(s, sub, i) /\ \A j \in (i + 1)..Len(s) : ~MatchAt(s, sub, j)
  ELSE 0

Contains(s, sub) == Index(s, sub) # 0

\* strings.Count for a single character
CountChar(s, c) == Cardinality({i \in 1..Len(s) : Char(s, i) = c})

From(s, i) == SubSeq(s, i, Len(s))
Upto(s, i) == SubSeq(s, 1, i)

\* strings.Cut: the text before and after the first sep (all of s, "" when absent)
CutBefore(s, sep) == IF Index(s, sep) = 0 THEN s ELSE Upto(s, Index(s, sep) - 1)
CutAfter(s, sep) == IF Index(s, sep) = 0 THEN "" ELSE From(s, Index(s, sep) + Len(sep))

\* strings.Trim(s, cutset): leading and trailing characters of cutset removed
Trim(s, cutset) ==
  LET keep == {i \in 1..Len(s) : ~InChars(Char(s, i), cutset)}
  IN IF keep = {} THEN ""
     ELSE SubSeq(s, CHOOSE i \in keep : \A j \in keep : i <= j,
                    CHOOSE i \in keep : \A j \in keep : i >= j)

WhiteSpace == " \t\r\n"

TrimSpace(s) == Trim(s, WhiteSpace)

RECURSIVE ToLower(_)
ToLower(s) ==
  IF s = "" THEN ""
  ELSE LET c == Char(s, 1)
           i == Index(Upper, c)
       IN (IF i = 0 THEN c ELSE Char(Lower, i)) \o ToLower(From(s, 2))

RECURSIVE ReplaceAll(_, _, _)
ReplaceAll(s, old, new) ==
  IF s = "" THEN ""
  ELSE IF HasPrefix(s, old) THEN new \o ReplaceAll(From(s, Len(old) + 1), old, new)
  ELSE Char(s, 1) \o ReplaceAll(From(s, 2), old, new)

(***************************************************************************)
(* net/url as the merge function and the `url` validator use it             *)
(***************************************************************************)
HexDigits == "0123456789abcdefABCDEF"

\* url.stringContainsCTLByte, over the control characters the model's strings hold
HasCTL(s) == \E i \in 1..Len(s) : InChars(Char(s, i), "\t\r\n")

\* url.shouldEscape(c, encodeHost): FALSE for the characters a host may hold as they are
HostSafe(c) == IsAlnum(c) \/ InChars(c, "-_.~!$&'()*+,;=:[]<>\"")

\* url.shouldEscape(c, encodePath): FALSE for the characters a path may hold as they are
PathSafe(c) == IsAlnum(c) \/ InChars(c, "-_.~$&+,/:;=@")

\* the %XX form of the characters of the model's strings that url.escape rewrites
PctOf(c) ==
  CASE c = " " -> "%20"
    [] c = "\t" -> "%09"
    [] c = "\"" -> "%22"
    [] c = "#" -> "%23"
    [] c = "%" -> "%25"
    [] c = "/" -> "%2F"
    [] c = "?" -> "%3F"
    [] c = "@" -> "%40"
    [] c = "[" -> "%5B"
    [] c = "]" -> "%5D"
    [] OTHER -> c

RECURSIVE EscapeHost(_)
EscapeHost(s) ==
  IF s = "" THEN ""
  ELSE (IF HostSafe(Char(s, 1)) THEN Char(s, 1) ELSE PctOf(Char(s, 1))) \o EscapeHost(From(s, 2))

RECURSIVE EscapePath(_)
EscapePath(s) ==
  IF s = "" THEN ""
  ELSE (IF PathSafe(Char(s, 1)) THEN Char(s, 1) ELSE PctOf(Char(s, 1))) \o EscapePath(From(s, 2))

\* url.unescape's failure on a % that two hex digits do not follow
BadPct(s) ==
  \E i \in 1..Len(s) :
     /\ Char(s, i) = "%"
     /\ ~(i + 2 <= Len(s) /\ InChars(Char(s, i + 1), HexDigits) /\ InChars(Char(s, i + 2), HexDigits))

\* url.unescape(host, encodeHost) fails: a bad %, a %-escape of an ASCII byte
\* other than %25, or a character a host may not hold
HostUnescapeErr(s) ==
  \/ BadPct(s)
  \/ \E i \in 1..Len(s) :
        /\ Char(s, i) = "%"
        /\ InChars(Char(s, i + 1), "01234567")
        /\ SubSeq(s, i, i + 2) # "%25"
  \/ \E i \in 1..Len(s) : Char(s, i) # "%" /\ ~HostSafe(Char(s, i))

\* url.validOptionalPort: "" or ":" followed by digits only
ValidOptionalPort(p) ==
  \/ p = ""
  \/ /\ Char(p, 1) = ":"
     /\ \A i \in 2..Len(p) : IsDigit(Char(p, i))

\* url.parseHost fails
ParseHostErr(host) ==
  \/ /\ HasPrefix(host, "[")
     /\ \/ LastIndex(host, "]") = 0
        \/ ~ValidOptionalPort(From(host, LastIndex(host, "]") + 1))
  \/ /\ ~HasPrefix(host, "[")
     /\ LastIndex(host, ":") # 0
     /\ ~ValidOptionalPort(From(host, LastIndex(host, ":")))
  \/ HostUnescapeErr(host)

\* url.validUserinfo
ValidUserinfo(s) == \A i \in 1..Len(s) : IsAlnum(Char(s, i)) \/ InChars(Char(s, i), "-._:~!$&'()*+,;=%@")

\* the zero url.URL, and the result of a failed parse
EmptyURL ==
  [err |-> FALSE, Scheme |-> "", Opaque |-> "", HasUser |-> FALSE, User |-> "", Host |-> "",
   Path |-> "", ForceQuery |-> FALSE, RawQuery |-> "", Fragment |-> "", OmitHost |-> FALSE]

BadURL == [EmptyURL EXCEPT !.err = TRUE]

\* url.getScheme stops at the first character that cannot continue a scheme
SchemeStopAt(raw, i) ==
  ~(IsLetter(Char(raw, i)) \/ (i > 1 /\ (IsDigit(Char(raw, i)) \/ InChars(Char(raw, i), "+-."))))

SchemeStop(raw) ==
  IF \E i \in 1..Len(raw) : SchemeStopAt(raw, i)
  THEN CHOOSE i \in 1..Len(raw) : SchemeStopAt(raw, i) /\ \A j \in 1..(i - 1) : ~SchemeStopAt(raw, j)
  ELSE 0

\* url.getScheme, given where it stops: [err, scheme, rest]
GetSchemeAt(raw, i) ==
  IF i = 0 \/ Char(raw, i) # ":" THEN [err |-> FALSE, scheme |-> "", rest |-> raw]
  ELSE IF i = 1 THEN [err |-> TRUE, scheme |-> "", rest |-> ""]
  ELSE [err |-> FALSE, scheme |-> Upto(raw, i - 1), rest |-> From(raw, i + 1)]

GetScheme(raw) == GetSchemeAt(raw, SchemeStop(raw))

\* url.URL.setPath
ParsePath(u, rest) == IF BadPct(rest) THEN BadURL ELSE [u EXCEPT !.Path = rest]

\* url.parseAuthority, given the host and userinfo parts of the authority
ParseAuthority(u, host, user, hasUser, rest) ==
  IF ParseHostErr(host) \/ ~ValidUserinfo(user) THEN BadURL
  ELSE ParsePath([u EXCEPT !.HasUser = hasUser, !.User = user, !.Host = host], rest)

\* the authority is what follows "//" up to the next "/"
SplitAuthority(u, authority, rest) ==
  IF LastIndex(authority, "@") = 0
  THEN ParseAuthority(u, authority, "", FALSE, rest)
  ELSE ParseAuthority(u, From(authority, LastIndex(authority, "@") + 1),
                      Upto(authority, LastIndex(authority, "@") - 1), TRUE, rest)

\* url.parse after the scheme and the query are cut off
ParseRest(u, rest) ==
  IF ~HasPrefix(rest, "/") /\ u.Scheme # "" THEN [u EXCEPT !.Opaque = rest]
  ELSE IF ~HasPrefix(rest, "/") /\ Contains(CutBefore(rest, "/"), ":") THEN BadURL
  ELSE IF (u.Scheme # "" \/ ~HasPrefix(rest, "///")) /\ HasPrefix(rest, "//")
  THEN SplitAuthority(u, CutBefore(From(rest, 3), "/"),
                      IF Index(From(rest, 3), "/") = 0 THEN ""
                      ELSE From(rest, Index(From(rest, 3), "/") + 2))
  ELSE IF BadPct(rest) THEN BadURL
  ELSE [u EXCEPT !.OmitHost = u.Scheme # "" /\ HasPrefix(rest, "/"), !.Path = rest]

\* url.parse splits the query off: a lone trailing "?" forces an empty query
ParseQuery(scheme, rest) ==
  IF HasSuffix(rest, "?") /\ CountChar(rest, "?") = 1
  THEN [scheme |-> scheme, force |-> TRUE, query |-> "", rest |-> Upto(rest, Len(rest) - 1)]
  ELSE [scheme |-> scheme, force |-> FALSE, query |-> CutAfter(rest, "?"), rest |-> CutBefore(rest, "?")]

ParseAfterQuery(q) ==
  ParseRest([EmptyURL EXCEPT !.Scheme = q.scheme, !.ForceQuery = q.force, !.RawQuery = q.query], q.rest)

ParseAfterScheme(gs) ==
  IF gs.err THEN BadURL ELSE ParseAfterQuery(ParseQuery(ToLower(gs.scheme), gs.rest))

\* url.parse(rawURL, false): everything before the fragment
ParseNoFrag(u) ==
  IF HasCTL(u) THEN BadURL
  ELSE IF u = "*" THEN [EmptyURL EXCEPT !.Path = "*"]
  ELSE ParseAfterScheme(GetScheme(u))

\* url.URL.setFragment
ParseFragment(u, frag) ==
  IF u.err \/ BadPct(frag) THEN BadURL ELSE [u EXCEPT !.Fragment = frag]

\* url.Parse
Parse(rawURL) == ParseFragment(ParseNoFrag(CutBefore(rawURL, "#")), CutAfter(rawURL, "#"))

\* (*URL).String: "scheme:"
StringScheme(u) == IF u.Scheme # "" THEN u.Scheme \o ":" ELSE ""

\* (*URL).String: "//user@host"
StringAuthority(u) ==
  IF (u.Scheme # "" \/ u.Host # "" \/ u.HasUser) /\ ~(u.OmitHost /\ u.Host = "" /\ ~u.HasUser)
  THEN (IF u.Host # "" \/ u.Path # "" \/ u.HasUser THEN "//" ELSE "")
       \o (IF u.HasUser THEN u.User \o "@" ELSE "")
       \o EscapeHost(u.Host)
  ELSE ""

\* (*URL).EscapedPath
EscapedPath(u) == IF u.Path = "*" THEN "*" ELSE EscapePath(u.Path)

\* (*URL).String: the path after what is already written
StringPath(u, written, path) ==
  (IF path # "" /\ Char(path, 1) # "/" /\ u.Host # "" THEN "/"
   ELSE IF written = "" /\ Contains(CutBefore(path, "/"), ":") THEN "./"
   ELSE "")
  \o path

\* (*URL).String: "?query#fragment"
StringTail(u) ==
  (IF u.ForceQuery \/ u.RawQuery # "" THEN "?" \o u.RawQuery ELSE "")
  \o (IF u.Fragment # "" THEN "#" \o EscapePath(u.Fragment) ELSE "")

StringHier(u, written) == written \o StringPath(u, written, EscapedPath(u))

\* (*URL).String
String(u) ==
  (IF u.Opaque # "" THEN StringScheme(u) \o u.Opaque
   ELSE StringHier(u, StringScheme(u) \o StringAuthority(u)))
  \o StringTail(u)

(***************************************************************************)
(* Maps: map[string]interface{} holding strings, as TLA+ functions          *)
(***************************************************************************)
EmptyMap == [x \in {} |-> ""]

\* m[key] = val
Put(m, key, val) == (key :> val) @@ m

(***************************************************************************)
(* INI parser                                                               *)
(***************************************************************************)
\* bufio.Scanner with ScanLines: the lines of b, without their line ends
RECURSIVE ScanLines(_)
ScanLines(b) ==
  IF b = "" THEN <<>>
  ELSE LET i == Index(b, "\n")
           raw == IF i = 0 THEN b ELSE Upto(b, i - 1)
           line == IF HasSuffix(raw, "\r") THEN Upto(raw, Len(raw) - 1) ELSE raw
       IN <<line>> \o (IF i = 0 THEN <<>> ELSE ScanLines(From(b, i + 1)))

\* the loop body of INI.Unmarshal on a trimmed line: [section, result]
UnmarshalTrimmed(line, st) ==
  IF line = "" \/ HasPrefix(line, "#") \/ HasPrefix(line, ";") THEN st
  ELSE IF Contains(line, "sabnzbd.ini_version__") \/ Contains(line, "__encoding__") THEN st
  ELSE IF HasPrefix(line, "[") /\ HasSuffix(line, "]") THEN [st EXCEPT !.section = Trim(line, "[]")]
  ELSE IF Index(line, "=") = 0 THEN st
  ELSE [st EXCEPT !.result = Put(st.result,
                                 st.section \o "." \o TrimSpace(CutBefore(line, "=")),
                                 Trim(TrimSpace(CutAfter(line, "=")), "\""))]

RECURSIVE UnmarshalLines(_, _)
UnmarshalLines(lines, st) ==
  IF lines = <<>> THEN st.result
  ELSE UnmarshalLines(Tail(lines), UnmarshalTrimmed(TrimSpace(Head(lines)), st))

\* INI.Unmarshal: the map of "<section>.<key>" to value
Unmarshal(b) == UnmarshalLines(ScanLines(b), [section |-> "misc", result |-> EmptyMap])

\* getStringFromMap: [ok, val].  Every value INI.Unmarshal stores is a string,
\* so convertToString returns it as it is and the nested traversal, which
\* needs m["misc"] to be a map, finds nothing.
getStringFromMap(m, key) ==
  IF key \in DOMAIN m THEN [ok |-> TRUE, val |-> m[key]]
  ELSE [ok |-> FALSE, val |-> ""]

\* a key getStringFromMap finds with a non-empty value
NonEmpty(m, key) == getStringFromMap(m, key).ok /\ getStringFromMap(m, key).val # ""

\* the protocol INI.Merge computes
MergeProtocol(m) ==
  IF getStringFromMap(m, "misc.enable_https").ok /\ getStringFromMap(m, "misc.enable_https").val = "1"
  THEN "https" ELSE "http"

\* MergePort taking https_port whatever the protocol
MergePortAnyProtocol(m) ==
  IF NonEmpty(m, "misc.https_port") THEN getStringFromMap(m, "misc.https_port").val
  ELSE getStringFromMap(m, "misc.port").val

\* the port INI.Merge uses
MergePort(m) ==
  IF MergeProtocol(m) = "https" /\ NonEmpty(m, "misc.https_port")
  THEN getStringFromMap(m, "misc.https_port").val
  ELSE getStringFromMap(m, "misc.port").val

\* NormalizeHost without the "::" case: the any-address is bracketed like any IPv6 host
NormalizeHostNoAny(host) ==
  IF Contains(host, ":") /\ ~HasPrefix(host, "[") THEN "[" \o host \o "]" ELSE host

\* INI.Merge's host normalisation: "::" is localhost, an IPv6 address is bracketed
NormalizeHost(host) ==
  IF host = "::" \/ host = "" THEN "localhost"
  ELSE IF Contains(host, ":") /\ ~HasPrefix(host, "[") THEN "[" \o host \o "]"
  ELSE host

MergeHost(m) == NormalizeHost(TrimSpace(getStringFromMap(m, "misc.host").val))

\* INI.Merge tests this before it touches the URL
HasHostPort(m) == NonEmpty(m, "misc.host") /\ NonEmpty(m, "misc.port")

\* OverrideURL with the parse error dropped
OverrideURLNoCheck(u, protocol, hostport) ==
  [err |-> "", url |-> String([u EXCEPT !.Host = hostport, !.Scheme = protocol])]

\* baseURL parsed, with Host and Scheme overridden: [err, url]
OverrideURL(u, protocol, hostport) ==
  IF u.err THEN [err |-> "failed to parse base URL", url |-> ""]
  ELSE [err |-> "", url |-> String([u EXCEPT !.Host = hostport, !.Scheme = protocol])]

\* the URL constructed from scratch: [err, url]
ConstructURL(u) ==
  IF u.err THEN [err |-> "failed to parse constructed URL", url |-> ""]
  ELSE [err |-> "", url |-> String(u)]

\* the URL INI.Merge builds: [err, url]
BuildURL(baseURL, protocol, hostport) ==
  IF baseURL # "" THEN OverrideURL(Parse(baseURL), protocol, hostport)
  ELSE ConstructURL(Parse(protocol \o "://" \o hostport))

MergeURL(baseURL, m) == BuildURL(baseURL, MergeProtocol(m), MergeHost(m) \o ":" \o MergePort(m))

\* INI.Merge writes dest["url"] unless building the URL failed: [err, dest]
WriteURL(r, dest) ==
  IF r.err # "" THEN [err |-> r.err, dest |-> dest]
  ELSE [err |-> "", dest |-> Put(dest, "url", r.url)]

\* INI.Merge's host and port part, on dest after the API key part
MergeHostPort(baseURL, m, dest) ==
  IF ~HasHostPort(m) THEN [err |-> "", dest |-> dest]
  ELSE WriteURL(MergeURL(baseURL, m), dest)

\* INI.Merge's API key part
MergeApiKey(m, dest) ==
  IF NonEmpty(m, "misc.api_key") THEN Put(dest, "api-key", getStringFromMap(m, "misc.api_key").val)
  ELSE dest

\* Merge starting from the store's current url instead of the captured base URL
MergeFromStore(baseURL, m, dest) ==
  MergeHostPort(IF "url" \in DOMAIN dest THEN dest["url"] ELSE baseURL, m, MergeApiKey(m, dest))

\* koanf's default merge in place of the merge function: every INI key is copied
MergeDefault(baseURL, m, dest) == [err |-> "", dest |-> m @@ dest]

\* the function INI.Merge(baseURL) returns, applied to (m, dest): [err, dest]
Merge(baseURL, m, dest) == MergeHostPort(baseURL, m, MergeApiKey(m, dest))

(***************************************************************************)
(* Inputs                                                                   *)
(***************************************************************************)
\* at most this many environment variables are set before the call
MaxEnv == 2

\* base_config.Config.URL as the caller passes it
BaseURLs ==
  {"", "http://sabnzbd.example.com:9090", "http://nas.lan/sab?o=json",
   "localhost:8080", ":8080"}

GoodKey == "abcdef0123456789abcdef0123456789"

BaseApiKeys == {"", GoodKey}

\* environment variables (name, value) a run may find set
EnvSamples ==
  {<<"SAB_CONFIG", "sab.ini">>, <<"CONFIG", "sab.ini">>, <<"CONFIG", "other.ini">>,
   <<"URL", "http://env.lan:7070/api">>,
   <<"DISABLE_SSL_VERIFY", "false">>, <<"DISABLE_SSL_VERIFY", "maybe">>}

\* values flags.Set may give a flag
FlagValues ==
  [config |-> {"sab.ini", "other.ini"}, url |-> {"http://flag.lan:6060"}]

\* paths os.ReadFile can read
ExistingFiles == {"sab.ini"}

\* contents the file at the resolved path may have
IniFiles ==
  {"__version__ = 19\n__encoding__ = utf-8\n[misc]\nhost = ::\nport = 8080\napi_key = abcdef0123456789abcdef0123456789\n",
   "# sabnzbd\r\nhost = 10.0.0.5\r\nport = 8080\r\nenable_https = 1\r\nhttps_port = 9090\r\n[servers]\r\nhost = news.example.com\r\n",
   "[misc]\nhost = \"nas\"\nport = 8080\nenable_https = 1\nhttps_port = \"\"\n",
   "[misc]\nhost = ::1\nport = 8080\nenable_https = 0\nhttps_port = 9090\napi_key = \"\"\n",
   "[misc]\n; no port\nhost = nas\napi_key = bad-key\nurl = http://ini.lan\n",
   "[misc]\nhost = nas\nport = 80a\n",
   "[misc]\nhost = \" \"\nport=8080\nenable_https = true\n[logging]\nport = 1\n"}

(***************************************************************************)
(* State                                                                    *)
(***************************************************************************)
\* the *SabnzbdConfig a failed call returns
NilConfig ==
  [nil |-> TRUE, App |-> "", INIConfig |-> "", URL |-> "", ApiKey |-> "", DisableSSLVerify |-> FALSE]

Init ==
  /\ conf \in {c \in [App : {"sabnzbd"}, URL : BaseURLs, ApiKey : BaseApiKeys,
                      DisableSSLVerify : BOOLEAN] : c.ApiKey = "" => ~c.DisableSSLVerify}
  /\ environ = EmptyMap
  /\ \E registered \in {{"config"}, {"config", "url"}} :
        flags = [f \in registered |-> [val |-> "", changed |-> FALSE]]
  /\ pc = "setup"
  /\ k = EmptyMap
  /\ src = EmptyMap
  /\ out = NilConfig
  /\ err = ""
  /\ valid = "unchecked"

(***************************************************************************)
(* Before the call: the process environment and the parsed command line     *)
(***************************************************************************)
\* os.Setenv / t.Setenv
Setenv(name, value) ==
  /\ pc = "setup"
  /\ name \notin DOMAIN environ
  /\ Cardinality(DOMAIN environ) < MaxEnv
  /\ environ' = Put(environ, name, value)
  /\ UNCHANGED <<conf, flags, pc, k, src, out, err, valid>>

\* flags.Set(name, value) on a registered flag
FlagSet(name, value) ==
  /\ pc = "setup"
  /\ name \in DOMAIN flags
  /\ ~flags[name].changed
  /\ flags' = [flags EXCEPT ![name] = [val |-> value, changed |-> TRUE]]
  /\ UNCHANGED <<conf, environ, pc, k, src, out, err, valid>>

(***************************************************************************)
(* LoadSabnzbdConfig                                                        *)
(***************************************************************************)
\* the key transformation given to env.Provider
EnvKey(name) == ReplaceAll(ReplaceAll(ToLower(name), "__", "."), "_", "-")

\* env.Provider("", ".", cb).Read: every variable, no prefix cut.  No name of
\* EnvSamples holds "__", so no key holds "." and the layer is flat.
EnvLayer(e) ==
  [key \in {EnvKey(n) : n \in DOMAIN e} |-> e[CHOOSE n \in DOMAIN e : EnvKey(n) = key]]

\* FlagLayer without the test of Changed: every flag is written, set or not
FlagLayerAll(f, store) == [key \in DOMAIN f |-> f[key].val]

\* posflag.Provider(flags, ".", k).Read: a flag the command line did not set
\* is left out when the store already has its key
FlagLayer(f, store) ==
  [key \in {n \in DOMAIN f : f[n].changed \/ n \notin DOMAIN store} |-> f[key].val]

\* koanf's default merge of a flat layer: the new layer wins per key
MergeLayer(layer, store) == layer @@ store

\* k.String(key): "" when the key is missing
KString(store, key) == IF key \in DOMAIN store THEN store[key] ELSE ""

\* strconv.ParseBool accepts these
TrueStrings == {"1", "t", "T", "TRUE", "true", "True"}
FalseStrings == {"0", "f", "F", "FALSE", "false", "False"}

\* k.Unmarshal("", out) for the bool field: weakly typed, "" is false
BoolDecodeErr(store) ==
  /\ "disable-ssl-verify" \in DOMAIN store
  /\ store["disable-ssl-verify"] \notin TrueStrings \cup FalseStrings \cup {""}

\* Decode without the fields seeded from conf: a key the store lacks leaves ""
DecodeNoSeed(c, store) ==
  [nil |-> FALSE,
   App |-> IF "app" \in DOMAIN store THEN store["app"] ELSE "",
   INIConfig |-> IF "config" \in DOMAIN store THEN store["config"] ELSE "",
   URL |-> IF "url" \in DOMAIN store THEN store["url"] ELSE "",
   ApiKey |-> IF "api-key" \in DOMAIN store THEN store["api-key"] ELSE "",
   DisableSSLVerify |-> "disable-ssl-verify" \in DOMAIN store
                        /\ store["disable-ssl-verify"] \in {"1", "t", "T", "TRUE", "true", "True"}]

\* k.Unmarshal("", out): a key of the store overwrites the field seeded from conf
Decode(c, store) ==
  [nil |-> FALSE,
   App |-> IF "app" \in DOMAIN store THEN store["app"] ELSE c.App,
   INIConfig |-> KString(store, "config"),
   URL |-> IF "url" \in DOMAIN store THEN store["url"] ELSE c.URL,
   ApiKey |-> IF "api-key" \in DOMAIN store THEN store["api-key"] ELSE c.ApiKey,
   DisableSSLVerify |-> IF "disable-ssl-verify" \in DOMAIN store
                        THEN store["disable-ssl-verify"] \in TrueStrings
                        ELSE c.DisableSSLVerify]

\* koanf.New(".") and the empty defaults layer
LoadDefaults ==
  /\ pc = "setup"
  /\ k' = MergeLayer(EmptyMap, EmptyMap)
  /\ pc' = "env"
  /\ UNCHANGED <<conf, environ, flags, src, out, err, valid>>

LoadEnv ==
  /\ pc = "env"
  /\ k' = MergeLayer(EnvLayer(environ), k)
  /\ pc' = "flags"
  /\ UNCHANGED <<conf, environ, flags, src, out, err, valid>>

LoadFlags ==
  /\ pc = "flags"
  /\ k' = MergeLayer(FlagLayer(flags, k), k)
  /\ pc' = "ini"
  /\ UNCHANGED <<conf, environ, flags, src, out, err, valid>>

\* no config path: the INI layer is skipped
SkipINI ==
  /\ pc = "ini"
  /\ KString(k, "config") = ""
  /\ pc' = "decode"
  /\ UNCHANGED <<conf, environ, flags, k, src, out, err, valid>>

\* file.Provider(iniConfig) cannot read the file
LoadINIUnreadable ==
  /\ pc = "ini"
  /\ KString(k, "config") # ""
  /\ KString(k, "config") \notin ExistingFiles
  /\ err' = "read"
  /\ pc' = "returned"
  /\ UNCHANGED <<conf, environ, flags, k, src, out, valid>>

\* koanf's merge with a merge function: its error aborts the load
Merged(r) ==
  /\ k' = r.dest
  /\ err' = r.err
  /\ pc' = IF r.err # "" THEN "returned" ELSE "decode"

\* k.Load(file.Provider(iniConfig), INIParser(), WithMergeFunc(INIParser().Merge(conf.URL)))
LoadINI(content) ==
  /\ pc = "ini"
  /\ KString(k, "config") \in ExistingFiles
  /\ src' = Unmarshal(content)
  /\ Merged(Merge(conf.URL, src', k))
  /\ UNCHANGED <<conf, environ, flags, out, valid>>

\* out := &SabnzbdConfig{...}; k.Unmarshal("", out); return
Return ==
  /\ pc = "decode"
  /\ IF BoolDecodeErr(k)
     THEN err' = "decode" /\ out' = NilConfig
     ELSE err' = "" /\ out' = Decode(conf, k)
  /\ pc' = "returned"
  /\ UNCHANGED <<conf, environ, flags, k, src, valid>>

(***************************************************************************)
(* SabnzbdConfig.Validate                                                   *)
(***************************************************************************)
\* the bounds of the ApiKey rule's regex, ^[a-zA-Z0-9]{20,32}$
MinKeyLen == 20
MaxKeyLen == 32

\* how many characters [a-zA-Z0-9] matches from the start of s
AlnumRun(s) ==
  IF \E i \in 1..Len(s) : ~IsAlnum(Char(s, i))
  THEN (CHOOSE i \in 1..Len(s) : ~IsAlnum(Char(s, i)) /\ \A j \in 1..(i - 1) : IsAlnum(Char(s, j))) - 1
  ELSE Len(s)

\* RegexMatch without the closing $: only the first characters are tested
RegexMatchUnanchored(s) == AlnumRun(s) >= MinKeyLen

\* the regex matches: between 20 and 32 characters of the class, then the end of the text
RegexMatch(s) == AlnumRun(s) >= MinKeyLen /\ AlnumRun(s) <= MaxKeyLen /\ AlnumRun(s) = Len(s)

\* the validator `url`: the text is not empty and url.Parse accepts it
IsURL(s) == s # "" /\ ~Parse(s).err

\* the rules of the struct tags: URL required|url, ApiKey required|regex
ValidateStruct(c) == c.URL # "" /\ IsURL(c.URL) /\ c.ApiKey # "" /\ RegexMatch(c.ApiKey)

\* c.Validate(), as sabnzbdCmd.RunE calls it on the configuration a load returned
Validate ==
  /\ pc = "returned"
  /\ err = ""
  /\ valid' = IF ValidateStruct(out) THEN "ok" ELSE "invalid"
  /\ pc' = "validated"
  /\ UNCHANGED <<conf, environ, flags, k, src, out, err>>

Next ==
  \/ \E e \in EnvSamples : Setenv(e[1], e[2])
  \/ \E name \in DOMAIN FlagValues : \E value \in FlagValues[name] : FlagSet(name, value)
  \/ LoadDefaults
  \/ LoadEnv
  \/ LoadFlags
  \/ SkipINI
  \/ LoadINIUnreadable
  \/ \E content \in IniFiles : LoadINI(content)
  \/ Return
  \/ Validate

Spec == Init /\ [][Next]_vars

(***************************************************************************)
(* Validate on its own: configurations built directly, as TestValidate does  *)
(***************************************************************************)
ValidateURLs ==
  {"", "http://localhost:8080", "localhost:8080", ":8080", "http://nas:80a",
   "/sabnzbd", "not a url", "http://nas.lan/sab?o=json"}

ValidateKeys ==
  {"", "abcdef0123456789abcdef0123456789", "abcdefABCDEF0123456789abcdef0123",
   "abcdefABCDEF01234567", "abcdef0123456789abc", "abcdef0123456789abcdef0123456789a",
   "abcdef0123456789abcdef0123456789abcdef", "abcdef0123456789abcdef01234567-",
   "abcdef0123 456789abcdef", "-abcdef0123456789abcdef"}

InitValidate ==
  /\ conf = [App |-> "sabnzbd", URL |-> "", ApiKey |-> "", DisableSSLVerify |-> FALSE]
  /\ environ = EmptyMap
  /\ flags = [f \in {"config"} |-> [val |-> "", changed |-> FALSE]]
  /\ pc = "returned"
  /\ k = EmptyMap
  /\ src = EmptyMap
  /\ out \in [nil : {FALSE}, App : {"sabnzbd"}, INIConfig : {""}, URL : ValidateURLs,
              ApiKey : ValidateKeys, DisableSSLVerify : {FALSE}]
  /\ err = ""
  /\ valid = "unchecked"

SpecValidate == InitValidate /\ [][Validate]_vars

(***************************************************************************)
(* Properties                                                               *)
(***************************************************************************)
\* LoadSabnzbdConfig has returned
Done == pc \in {"returned", "validated"}

\* the INI layer was loaded: a readable path was resolved and the merge function ran
IniRan == pc \in {"decode", "returned", "validated"} /\ KString(k, "config") \in ExistingFiles

\* the keys the environment and the registered flags map to
LayerKeys == {EnvKey(n) : n \in DOMAIN environ} \cup DOMAIN flags

ParseErrors == {"failed to parse base URL", "failed to parse constructed URL"}

\* C1: with non-empty base URL and ApiKey, no config path resolved, and no
\* environment variable or flag mapping to url, api-key or disable-ssl-verify,
\* the load succeeds and returns the base URL, ApiKey and DisableSSLVerify.
C1_DefaultsPassThrough ==
  (/\ Done
   /\ conf.URL # "" /\ conf.ApiKey # ""
   /\ KString(k, "config") = ""
   /\ LayerKeys \cap {"url", "api-key", "disable-ssl-verify"} = {})
  => /\ err = "" /\ ~out.nil
     /\ out.URL = conf.URL
     /\ out.ApiKey = conf.ApiKey
     /\ out.DisableSSLVerify = conf.DisableSSLVerify

C1_Witness ==
  /\ pc = "returned" /\ err = ""
  /\ conf.URL = "http://nas.lan/sab?o=json" /\ conf.ApiKey = GoodKey /\ conf.DisableSSLVerify
  /\ DOMAIN environ = {"SAB_CONFIG"}
  /\ KString(k, "config") = ""
  /\ LayerKeys \cap {"url", "api-key", "disable-ssl-verify"} = {}
  /\ out.URL = conf.URL /\ out.ApiKey = GoodKey /\ out.DisableSSLVerify

\* the INI file gives misc.host = "::" and misc.port = "8080" and no misc.enable_https
TestFixtureIni(m) ==
  /\ "misc.host" \in DOMAIN m /\ m["misc.host"] = "::"
  /\ "misc.port" \in DOMAIN m /\ m["misc.port"] = "8080"
  /\ "misc.enable_https" \notin DOMAIN m

\* a base URL that is nothing but a scheme and a host[:port]
SchemeAndHostOnly(raw) ==
  /\ ~Parse(raw).err
  /\ Parse(raw).Opaque = "" /\ Parse(raw).Path = "" /\ Parse(raw).RawQuery = ""
  /\ ~Parse(raw).ForceQuery /\ Parse(raw).Fragment = "" /\ ~Parse(raw).HasUser

\* C2 as stated: with host "::" and port "8080" and no enable_https in the INI
\* file, the returned URL is http://localhost:8080 for any base URL.
C2_AnyBaseURL ==
  (Done /\ err = "" /\ IniRan /\ TestFixtureIni(src)) => out.URL = "http://localhost:8080"

\* C2 amended: with host "::" and port "8080" and no enable_https in the INI
\* file, and a base URL that is empty or only a scheme and a host[:port], the
\* INI layer loads without error and the returned URL is http://localhost:8080.
C2_BareBaseURL ==
  (Done /\ IniRan /\ TestFixtureIni(src) /\ (conf.URL = "" \/ SchemeAndHostOnly(conf.URL)))
  => /\ err \notin ParseErrors
     /\ err = "" => out.URL = "http://localhost:8080"

C2_Witness ==
  /\ pc = "returned" /\ err = "" /\ IniRan /\ TestFixtureIni(src)
  /\ conf.URL = "http://sabnzbd.example.com:9090"
  /\ out.URL = "http://localhost:8080"

\* the base URL's text after its scheme and authority: path, query and fragment
BaseRemainder(u) ==
  u.Path \o (IF u.ForceQuery \/ u.RawQuery # "" THEN "?" \o u.RawQuery ELSE "")
         \o (IF u.Fragment # "" THEN "#" \o u.Fragment ELSE "")

\* C3: with a non-empty, parseable base URL and non-empty INI host and port, the
\* URL written to key url is the base URL with its host:port replaced by
\* <normalized-host>:<port> and its scheme by the computed protocol, path and
\* query preserved.
C3_HostPortReplaced ==
  (IniRan /\ HasHostPort(src) /\ conf.URL # "" /\ ~Parse(conf.URL).err)
  => /\ "url" \in DOMAIN k
     /\ k["url"] = MergeProtocol(src) \o "://" \o MergeHost(src) \o ":" \o MergePort(src)
                   \o BaseRemainder(Parse(conf.URL))

\* C4: SAB_CONFIG=<path> with no --config flag set resolves the config key to
\* <path>: the returned configuration has INIConfig = <path>.
C4_SabConfigEnv ==
  (Done /\ err = "" /\ "SAB_CONFIG" \in DOMAIN environ /\ ~flags["config"].changed)
  => out.INIConfig = environ["SAB_CONFIG"]

\* C5: for a key set by both the environment layer and the flag layer, a flag
\* the command line set wins and a flag left unset keeps the environment's
\* value; for config this decides INIConfig and the INI file that is loaded.
C5_FlagOverEnv ==
  /\ pc = "ini" =>
       \A f \in DOMAIN flags : \A n \in DOMAIN environ :
          EnvKey(n) = f => /\ f \in DOMAIN k
                           /\ k[f] = IF flags[f].changed THEN flags[f].val ELSE environ[n]
  /\ (Done /\ "CONFIG" \in DOMAIN environ) =>
       LET path == IF flags["config"].changed THEN flags["config"].val ELSE environ["CONFIG"]
       IN /\ err = "" => out.INIConfig = path
          /\ err = "read" <=> path \notin ExistingFiles

C5_Witness ==
  /\ pc = "returned" /\ err = ""
  /\ "CONFIG" \in DOMAIN environ /\ environ["CONFIG"] = "other.ini"
  /\ flags["config"].changed /\ flags["config"].val = "sab.ini"
  /\ out.INIConfig = "sab.ini"
  /\ src # EmptyMap

\* every character of s is an ASCII letter or digit
AllAlnum(s) == \A i \in 1..Len(s) : IsAlnum(Char(s, i))

\* C6: Validate() returns no error exactly when URL is non-empty and a valid
\* URL and ApiKey is 20 to 32 ASCII letters and digits; so it returns an error
\* for an ApiKey of length 19, of length 33 or more, or holding any other
\* character, for an empty URL and for an empty ApiKey.
C6_ValidateExact ==
  pc = "validated" =>
    /\ valid = "ok" <=> /\ out.URL # "" /\ ~Parse(out.URL).err
                        /\ Len(out.ApiKey) >= 20 /\ Len(out.ApiKey) <= 32
                        /\ AllAlnum(out.ApiKey)
    /\ (Len(out.ApiKey) <= 19 \/ Len(out.ApiKey) >= 33 \/ ~AllAlnum(out.ApiKey) \/ out.URL = "")
       => valid = "invalid"

C6_Witness ==
  /\ pc = "validated" /\ valid = "invalid"
  /\ out.URL = "http://localhost:8080"
  /\ Len(out.ApiKey) = 33 /\ AllAlnum(out.ApiKey)

C8_URLFromBaseAndIni ==
  (Done /\ err = "" /\ IniRan /\ HasHostPort(src))
  => out.URL = MergeURL(conf.URL, src).url

C8_Witness ==
  /\ pc = "returned" /\ err = "" /\ IniRan /\ HasHostPort(src)
  /\ "URL" \in DOMAIN environ
  /\ "url" \in DOMAIN flags /\ flags["url"].changed
  /\ out.URL \notin {environ["URL"], flags["url"].val}
  /\ conf.URL = "http://sabnzbd.example.com:9090"

\* C9: the written URL's protocol is https iff misc.enable_https is "1", else
\* http; its port is misc.https_port iff the protocol is https and
\* misc.https_port is present and non-empty, else misc.port.  (The host and
\* port are visible in the written URL unless the base URL is opaque.)
C9_ProtocolAndPort ==
  (IniRan /\ HasHostPort(src) /\ err \notin ParseErrors)
  => LET https == "misc.enable_https" \in DOMAIN src /\ src["misc.enable_https"] = "1"
         protocol == IF https THEN "https" ELSE "http"
         port == IF https /\ "misc.https_port" \in DOMAIN src /\ src["misc.https_port"] # ""
                 THEN src["misc.https_port"] ELSE src["misc.port"]
         hostport == "://" \o MergeHost(src) \o ":" \o port
     IN /\ "url" \in DOMAIN k
        /\ HasPrefix(k["url"], protocol \o ":")
        /\ (conf.URL = "" \/ Parse(conf.URL).Opaque = "")
           => /\ HasPrefix(k["url"], protocol \o hostport)
              /\ From(k["url"], Len(protocol \o hostport) + 1)
                   = IF conf.URL = "" THEN "" ELSE BaseRemainder(Parse(conf.URL))

C9_Witness ==
  /\ pc = "decode" /\ IniRan
  /\ "misc.enable_https" \in DOMAIN src /\ src["misc.enable_https"] = "1"
  /\ "misc.https_port" \in DOMAIN src /\ src["misc.https_port"] = "9090"
  /\ src["misc.port"] = "8080"
  /\ conf.URL = "http://sabnzbd.example.com:9090"
  /\ k["url"] = "https://10.0.0.5:9090"

\* the entry of key in map m changed between two stores
EntryChanged(m1, m2, key) ==
  \/ (key \in DOMAIN m1) # (key \in DOMAIN m2)
  \/ key \in DOMAIN m1 /\ key \in DOMAIN m2 /\ m1[key] # m2[key]

\* C10: the INI merge changes no key of the store other than api-key and url;
\* api-key changes only to a present, non-empty misc.api_key; url changes only
\* when misc.host and misc.port are both present and non-empty, and is left as
\* it was otherwise; no other INI key is copied into the store.
C10_MergeFrame ==
  [][(pc = "ini" /\ pc' # "ini" /\ KString(k, "config") \in ExistingFiles)
     => /\ \A key \in (DOMAIN k \cup DOMAIN k' \cup DOMAIN src') \ {"api-key", "url"} :
             ~EntryChanged(k, k', key)
        /\ EntryChanged(k, k', "api-key")
             => /\ "misc.api_key" \in DOMAIN src' /\ src'["misc.api_key"] # ""
                /\ k'["api-key"] = src'["misc.api_key"]
        /\ EntryChanged(k, k', "url")
             => /\ "misc.host" \in DOMAIN src' /\ src'["misc.host"] # ""
                /\ "misc.port" \in DOMAIN src' /\ src'["misc.port"] # ""
        /\ ("misc.api_key" \in DOMAIN src' /\ src'["misc.api_key"] # "")
             => "api-key" \in DOMAIN k' /\ k'["api-key"] = src'["misc.api_key"]
    ]_vars

C10_Witness ==
  /\ pc = "decode" /\ IniRan
  /\ "misc.host" \in DOMAIN src /\ "misc.port" \notin DOMAIN src /\ "misc.url" \in DOMAIN src
  /\ "URL" \in DOMAIN environ /\ k["url"] = environ["URL"]
  /\ k["api-key"] = "bad-key"
  /\ DOMAIN k \cap DOMAIN src = {}

====
